---- MODULE Spec2Model ----
(***************************************************************************)
(* Model of the Telegram mini-app form controller of telegram-vk-bot.      *)
(*                                                                         *)
(* Two variants of the controller exist in the repository:                 *)
(*   "webapp"  - src/webapp/app.js     (form + saved groups + session)     *)
(*   "part000" - src/unnamed/part_000  (form + session, no saved groups)   *)
(*                                                                         *)
(* Strings are sequences of one-character strings, so that trim, parseInt, *)
(* JSON.stringify and JSON.parse are computed character by character.      *)
(*                                                                         *)
(* The host (window.Telegram.WebApp) and the markup of the page are not    *)
(* part of the repository.  Of the host the model takes what its API       *)
(* documents: MainButton.onClick(cb) adds cb to the listeners of the click *)
(* event (offClick removes one), the listeners run in the order they were  *)
(* added, and showConfirm answers through its callback at a later time,    *)
(* with other events, further showConfirm calls included, in between.      *)
(* Whether the main button is shown before the script first shows or       *)
(* hides it is left open.  Of the markup it takes that #status starts      *)
(* hidden and that the fields start empty, #count and #countRange at 10.   *)
(*                                                                         *)
(* Spec is the whole page.  Its state space is the product of the form,    *)
(* the session and the saved groups, which share no state but the group id *)
(* field and the trace of a handler; the claims are checked on the parts:  *)
(* SpecSession, SpecStore, SpecSelect, SpecFrame, SpecFields and SpecForm. *)
(***************************************************************************)
EXTENDS Integers, Sequences, FiniteSets, Bags, TLC

(***************************************************************************)
(* Bounds of the model.                                                    *)
(***************************************************************************)
\* longest saved-groups list the add handler is exercised on
MaxGroups == 2
\* most click handlers bound to the main button at one time
MaxHandlers == 3
\* most confirmation dialogs awaiting an answer at one time
MaxPending == 2
\* largest day number a date field holds (0 is the empty field)
MaxDay == 2

(***************************************************************************)
(* JavaScript strings.                                                     *)
(***************************************************************************)
Quote == "\""
Backslash == "\\"
Digits == <<"0", "1", "2", "3", "4", "5", "6", "7", "8", "9">>

IsSpace(c) == c = " "

IsDigit(c) == \E d \in 1..10 : Digits[d] = c

DigitVal(c) == (CHOOSE d \in 1..10 : Digits[d] = c) - 1

\* String.prototype.trim
RECURSIVE TrimLeft(_)
TrimLeft(s) ==
    IF s # <<>> /\ IsSpace(Head(s)) THEN TrimLeft(Tail(s)) ELSE s

RECURSIVE TrimRight(_)
TrimRight(s) ==
    IF s # <<>> /\ IsSpace(s[Len(s)])
    THEN TrimRight(SubSeq(s, 1, Len(s) - 1))
    ELSE s

Trim(s) == TrimRight(TrimLeft(s))

\* a JavaScript number that may be NaN
Num(n) == [nan |-> FALSE, n |-> n]
NaN == [nan |-> TRUE, n |-> 0]

\* the digits at the front of s, as a number (acc digits already read)
RECURSIVE ReadDigits(_, _)
ReadDigits(s, acc) ==
    IF s # <<>> /\ IsDigit(Head(s))
    THEN ReadDigits(Tail(s), acc * 10 + DigitVal(Head(s)))
    ELSE acc

\* parseInt(s), radix 10: leading white space, an optional sign, then the
\* longest run of digits; NaN when there is no digit
parseInt(s) ==
    LET t == TrimLeft(s)
        neg == t # <<>> /\ Head(t) = "-"
        signed == t # <<>> /\ Head(t) \in {"-", "+"}
        body == IF signed THEN Tail(t) ELSE t
    IN  IF body = <<>> \/ ~IsDigit(Head(body))
        THEN NaN
        ELSE Num(IF neg THEN 0 - ReadDigits(body, 0) ELSE ReadDigits(body, 0))

\* String(n) for an integer n
RECURSIVE NatToString(_)
NatToString(n) ==
    IF n < 10 THEN <<Digits[n + 1]>>
    ELSE NatToString(n \div 10) \o <<Digits[(n % 10) + 1]>>

NumToString(n) == IF n < 0 THEN <<"-">> \o NatToString(0 - n) ELSE NatToString(n)

(***************************************************************************)
(* JavaScript values as JSON sees them.  Every value is a record of the    *)
(* same shape; k is its kind.  An object keeps its name and id members     *)
(* (the only ones the program reads); a member that is absent is           *)
(* Undefined, a member that is not a string is Opaque.                     *)
(***************************************************************************)
Undefined == <<"#undefined">>
Opaque == <<"#value">>

JsVal(k, s, items, name, id) ==
    [k |-> k, s |-> s, items |-> items, name |-> name, id |-> id]

JsStr(s) == JsVal("str", s, <<>>, Undefined, Undefined)
JsNum(s) == JsVal("num", s, <<>>, Undefined, Undefined)
JsLit(w) == JsVal("lit", w, <<>>, Undefined, Undefined)
JsArr(items) == JsVal("arr", <<>>, items, Undefined, Undefined)
JsObj(name, id) == JsVal("obj", <<>>, <<>>, name, id)
\* a variable in its temporal dead zone (let, before the declaration ran)
JsUninit == JsVal("uninit", <<>>, <<>>, Undefined, Undefined)
\* the result of a failed parse (JSON.parse throws SyntaxError)
JsThrow == JsVal("throw", <<>>, <<>>, Undefined, Undefined)

\* a string literal of JSON text: quotes and backslashes are escaped
RECURSIVE EscapeJson(_)
EscapeJson(s) ==
    IF s = <<>> THEN <<>>
    ELSE (IF Head(s) \in {Quote, Backslash}
          THEN <<Backslash, Head(s)>>
          ELSE <<Head(s)>>) \o EscapeJson(Tail(s))

QuoteJson(s) == <<Quote>> \o EscapeJson(s) \o <<Quote>>

KeyName == <<"n", "a", "m", "e">>
KeyId == <<"i", "d">>

\* JSON.stringify of one member list: undefined members are left out
StringifyMembers(v) ==
    LET n == IF v.name = Undefined THEN <<>>
             ELSE QuoteJson(KeyName) \o <<":">> \o QuoteJson(v.name)
        i == IF v.id = Undefined THEN <<>>
             ELSE QuoteJson(KeyId) \o <<":">> \o QuoteJson(v.id)
    IN  IF n # <<>> /\ i # <<>> THEN n \o <<",">> \o i ELSE n \o i

\* JSON.stringify(value)
RECURSIVE JSONStringify(_)
RECURSIVE StringifyItems(_)
StringifyItems(items) ==
    IF items = <<>> THEN <<>>
    ELSE JSONStringify(Head(items))
         \o (IF Tail(items) = <<>> THEN <<>> ELSE <<",">>)
         \o StringifyItems(Tail(items))

JSONStringify(v) ==
    CASE v.k = "str" -> QuoteJson(v.s)
      [] v.k = "num" -> v.s
      [] v.k = "lit" -> v.s
      [] v.k = "arr" -> <<"[">> \o StringifyItems(v.items) \o <<"]">>
      [] v.k = "obj" -> <<"{">> \o StringifyMembers(v) \o <<"}">>

(***************************************************************************)
(* JSON.parse: a recursive-descent parser over the characters.  A parse    *)
(* step yields [ok, v, at]: whether it succeeded, the value read and the   *)
(* position after it.                                                      *)
(***************************************************************************)
Parsed(v, at) == [ok |-> TRUE, v |-> v, at |-> at]
Failed == [ok |-> FALSE, v |-> JsThrow, at |-> 0]

RECURSIVE SkipWs(_, _)
SkipWs(s, i) ==
    IF i <= Len(s) /\ IsSpace(s[i]) THEN SkipWs(s, i + 1) ELSE i

At(s, i, c) == i <= Len(s) /\ s[i] = c

\* the rest of a string literal, after its opening quote
RECURSIVE ParseString(_, _, _)
ParseString(s, i, acc) ==
    IF i > Len(s) THEN Failed
    ELSE IF s[i] = Quote THEN Parsed(JsStr(acc), i + 1)
    ELSE IF s[i] = Backslash
         THEN IF i + 1 <= Len(s) /\ s[i + 1] \in {Quote, Backslash}
              THEN ParseString(s, i + 2, Append(acc, s[i + 1]))
              ELSE Failed
    ELSE ParseString(s, i + 1, Append(acc, s[i]))

RECURSIVE DigitsEnd(_, _)
DigitsEnd(s, i) ==
    IF i <= Len(s) /\ IsDigit(s[i]) THEN DigitsEnd(s, i + 1) ELSE i

\* a number: an optional minus, then 0 or a run of digits not starting with 0
ParseNumber(s, i) ==
    LET j == IF At(s, i, "-") THEN i + 1 ELSE i
        e == DigitsEnd(s, j)
    IN  IF e = j THEN Failed
        ELSE IF s[j] = "0" /\ e > j + 1 THEN Failed
        ELSE Parsed(JsNum(SubSeq(s, i, e - 1)), e)

ParseLiteral(s, i, w) ==
    IF i + Len(w) - 1 <= Len(s) /\ SubSeq(s, i, i + Len(w) - 1) = w
    THEN Parsed(JsLit(w), i + Len(w))
    ELSE Failed

LitNull == <<"n", "u", "l", "l">>
LitTrue == <<"t", "r", "u", "e">>
LitFalse == <<"f", "a", "l", "s", "e">>

\* the member's value as the object record keeps it
MemberValue(v) == IF v.k = "str" THEN v.s ELSE Opaque

RECURSIVE ParseValue(_, _)
RECURSIVE ParseElements(_, _, _)
RECURSIVE ParseMembers(_, _, _)

\* the elements of an array, after "[" or ","
ParseElements(s, i, acc) ==
    LET r == ParseValue(s, i)
        j == SkipWs(s, r.at)
    IN  IF ~r.ok THEN Failed
        ELSE IF At(s, j, "]") THEN Parsed(JsArr(Append(acc, r.v)), j + 1)
        ELSE IF At(s, j, ",") THEN ParseElements(s, j + 1, Append(acc, r.v))
        ELSE Failed

\* the members of an object, after "{" or ","
ParseMembers(s, i, obj) ==
    LET k0 == SkipWs(s, i)
        key == IF At(s, k0, Quote) THEN ParseString(s, k0 + 1, <<>>) ELSE Failed
        c == SkipWs(s, key.at)
        val == IF key.ok /\ At(s, c, ":") THEN ParseValue(s, c + 1) ELSE Failed
        j == SkipWs(s, val.at)
        next == IF key.v.s = KeyName THEN [obj EXCEPT !.name = MemberValue(val.v)]
                ELSE IF key.v.s = KeyId THEN [obj EXCEPT !.id = MemberValue(val.v)]
                ELSE obj
    IN  IF ~key.ok \/ ~val.ok THEN Failed
        ELSE IF At(s, j, "}") THEN Parsed(next, j + 1)
        ELSE IF At(s, j, ",") THEN ParseMembers(s, j + 1, next)
        ELSE Failed

ParseValue(s, i0) ==
    LET i == SkipWs(s, i0)
    IN  IF i > Len(s) THEN Failed
        ELSE IF s[i] = Quote THEN ParseString(s, i + 1, <<>>)
        ELSE IF s[i] = "[" THEN
            (IF At(s, SkipWs(s, i + 1), "]")
             THEN Parsed(JsArr(<<>>), SkipWs(s, i + 1) + 1)
             ELSE ParseElements(s, i + 1, <<>>))
        ELSE IF s[i] = "{" THEN
            (IF At(s, SkipWs(s, i + 1), "}")
             THEN Parsed(JsObj(Undefined, Undefined), SkipWs(s, i + 1) + 1)
             ELSE ParseMembers(s, i + 1, JsObj(Undefined, Undefined)))
        ELSE IF s[i] = "-" \/ IsDigit(s[i]) THEN ParseNumber(s, i)
        ELSE IF s[i] = "n" THEN ParseLiteral(s, i, LitNull)
        ELSE IF s[i] = "t" THEN ParseLiteral(s, i, LitTrue)
        ELSE IF s[i] = "f" THEN ParseLiteral(s, i, LitFalse)
        ELSE Failed

\* JSON.parse(text): the value, or JsThrow when the text is not JSON
JSONParse(s) ==
    LET r == ParseValue(s, 1)
    IN  IF r.ok /\ SkipWs(s, r.at) = Len(s) + 1 THEN r.v ELSE JsThrow

(***************************************************************************)
(* The state of the page.                                                  *)
(***************************************************************************)
VARIABLES
    variant,            \* which controller script the page runs
    pc,                 \* "start": script not run yet; "ready": script ran to
                        \* its end; "crashed": the script threw while loading
    groupIdInput,       \* value of #groupId
    startDateInput,     \* value of #startDate: a day number, 0 when empty
    endDateInput,       \* value of #endDate
    countInput,         \* value of #count
    countRange,         \* value of #countRange
    newGroupNameInput,  \* value of #newGroupName
    newGroupIdInput,    \* value of #newGroupId
    savedGroups,        \* the script's savedGroups variable
    storage,            \* localStorage[SAVED_GROUPS_KEY]: [present, text]
    groupsView,         \* #groupsList and #noGroupsHint: [listHidden,
                        \* hintHidden, items]
    pending,            \* the deleteGroup calls whose confirmation dialog is
                        \* not answered yet, a bag of [index, entry]: the
                        \* index the callback holds and the list item it was
                        \* called from
    session             \* status area, progress bar, main button and the
                        \* trace of the handler that ran last: the host calls
                        \* it made and, for the message listener, its branch

vars == <<variant, pc, groupIdInput, startDateInput, endDateInput, countInput,
          countRange, newGroupNameInput, newGroupIdInput, savedGroups,
          storage, groupsView, pending, session>>

formVars == <<groupIdInput, startDateInput, endDateInput, countInput,
              countRange>>
storeVars == <<newGroupNameInput, newGroupIdInput, savedGroups, storage,
               groupsView, pending>>

Variants == {"webapp", "part000"}

(***************************************************************************)
(* Texts the script shows (transliterated).                                *)
(***************************************************************************)
LabelStart == "Nachat kopirovanie"
LabelCopyMore == "Kopirovat eshche"
LabelRetry == "Poprobovat snova"
LabelStartOver == "Nachat zanovo"
IconProcessing == "hourglass"
IconSuccess == "check mark"
IconError == "cross mark"
TextProcessing == <<"Kopirovanie postov...">>
TextErrorDefault == <<"Oshibka kopirovaniya">>
AlertGroupId == "showAlert: Vvedite nazvanie ili ID gruppy VK"
AlertDates == "showAlert: Data nachala dolzhna byt ranshe daty okonchaniya"
AlertCount == "showAlert: Kolichestvo postov dolzhno byt ot 1 do 100"
AlertShortcut == "showAlert: Vvedite nazvanie i ID gruppy"

(***************************************************************************)
(* Form validation.                                                        *)
(***************************************************************************)
\* new Date(value) of a date field: NaN (Invalid Date) for the empty field
NewDate(value) == IF value = 0 THEN NaN ELSE Num(value)

\* a > b on two dates: false when either is Invalid Date
DateGreater(a, b) == ~a.nan /\ ~b.nan /\ a.n > b.n

\* the fields validateForm reads
FormFields == [groupId |-> groupIdInput, startDate |-> startDateInput,
               endDate |-> endDateInput, count |-> countInput]

\* whether the count check of validateForm rejects
CountRejected(count) == count.nan \/ count.n < 1 \/ count.n > 100

\* validateForm with the count check made before the date check
validateFormCountFirst(f) ==
    IF Trim(f.groupId) = <<>>
    THEN [ok |-> FALSE, alerts |-> <<AlertGroupId>>]
    ELSE IF CountRejected(parseInt(f.count))
    THEN [ok |-> FALSE, alerts |-> <<AlertCount>>]
    ELSE IF DateGreater(NewDate(f.startDate), NewDate(f.endDate))
    THEN [ok |-> FALSE, alerts |-> <<AlertDates>>]
    ELSE [ok |-> TRUE, alerts |-> <<>>]

\* validateForm(): [ok, alerts], the result and the alerts it raised
validateForm(f) ==
    LET groupId == Trim(f.groupId)
        startDate == NewDate(f.startDate)
        endDate == NewDate(f.endDate)
        count == parseInt(f.count)
    IN  IF groupId = <<>>
        THEN [ok |-> FALSE, alerts |-> <<AlertGroupId>>]
        ELSE IF DateGreater(startDate, endDate)
        THEN [ok |-> FALSE, alerts |-> <<AlertDates>>]
        ELSE IF CountRejected(count)
        THEN [ok |-> FALSE, alerts |-> <<AlertCount>>]
        ELSE [ok |-> TRUE, alerts |-> <<>>]

(***************************************************************************)
(* The session: status area, progress bar, main button.  Each operator     *)
(* below maps the session before a function runs to the session after it.  *)
(***************************************************************************)
\* a progress bar width: num/den percent; den = 0 is the width of the markup
Percent(num, den) == [num |-> num, den |-> den]

RECURSIVE Gcd(_, _)
Gcd(a, b) == IF b = 0 THEN a ELSE Gcd(b, a % b)

\* the percentage with current and total taken the wrong way round
PercentOfInverted(current, total) ==
    IF current > 0
    THEN LET g == Gcd(total * 100, current)
         IN  Percent((total * 100) \div g, current \div g)
    ELSE Percent(0, 1)

\* (current / total) * 100 as a fraction in lowest terms
PercentOf(current, total) ==
    IF total > 0
    THEN LET g == Gcd(current * 100, total)
         IN  Percent((current * 100) \div g, total \div g)
    ELSE Percent(0, 1)

\* a host whose onClick would replace the handler bound before
OnClickReplacing(handlers, callback) == <<callback>>

\* tg.MainButton.onClick(callback): the host adds callback to the listeners
\* of the button's click event (Telegram.WebApp.onEvent('mainButtonClicked'))
OnClick(handlers, callback) == Append(handlers, callback)

Call(s, c) == [s EXCEPT !.calls = Append(@, c)]

\* showProcessing without mainButton.hide()
showProcessingButtonShown(s, v) ==
    LET shown == [s EXCEPT
            !.statusHidden = FALSE,
            !.statusClasses = (@ \cup {"processing"}) \ {"success", "error"},
            !.statusIcon = IconProcessing,
            !.statusText = TextProcessing,
            !.progressFill = Percent(0, 1),
            !.progressText = <<"0", "/", "0">>]
    IN  IF v = "webapp" THEN Call(shown, "scrollIntoView") ELSE shown

showProcessing(s, v) ==
    LET shown == [s EXCEPT
            !.statusHidden = FALSE,
            !.statusClasses = (@ \cup {"processing"}) \ {"success", "error"},
            !.statusIcon = IconProcessing,
            !.statusText = TextProcessing,
            !.progressFill = Percent(0, 1),
            !.progressText = <<"0", "/", "0">>,
            !.mainButtonVisible = FALSE]
    IN  IF v = "webapp" THEN Call(shown, "scrollIntoView") ELSE shown

updateProgress(s, current, total) ==
    [s EXCEPT
        !.progressFill = PercentOf(current, total),
        !.progressText = NumToString(current) \o <<"/">> \o NumToString(total)]

showSuccess(s, v, count) ==
    LET shown == [s EXCEPT
            !.statusClasses = (@ \ {"processing", "error"}) \cup {"success"},
            !.statusIcon = IconSuccess,
            !.statusText = <<"Skopirovano ">> \o NumToString(count)
                           \o <<" postov!">>]
    IN  IF v = "webapp"
        THEN [shown EXCEPT
                !.mainButtonText = LabelCopyMore,
                !.mainButtonVisible = TRUE,
                !.clickHandlers = OnClick(@, "onCopyMore")]
        ELSE shown

showError(s, v, message) ==
    [s EXCEPT
        !.statusClasses = (@ \ {"processing", "success"}) \cup {"error"},
        !.statusIcon = IconError,
        !.statusText = IF message \in {Undefined, <<>>}
                       THEN TextErrorDefault ELSE message,
        !.mainButtonText = IF v = "webapp" THEN LabelRetry ELSE LabelStartOver,
        !.mainButtonVisible = TRUE]

\* the click handler showSuccess binds
onCopyMore(s) ==
    [s EXCEPT !.statusHidden = TRUE, !.mainButtonText = LabelStart]

handleSubmit(s, v, f) ==
    LET valid == validateForm(f)
    IN  IF ~valid.ok
        THEN [s EXCEPT !.calls = @ \o valid.alerts]
        ELSE showProcessing(
                [Call(s, "sendData") EXCEPT !.awaiting = TRUE], v)

\* the host runs the bound click handlers in the order they were bound
RECURSIVE RunClickHandlers(_, _, _, _)
RunClickHandlers(hs, s, v, f) ==
    IF hs = <<>> THEN s
    ELSE RunClickHandlers(Tail(hs),
            IF Head(hs) = "handleSubmit" THEN handleSubmit(s, v, f)
            ELSE onCopyMore(s),
            v, f)

(***************************************************************************)
(* The saved groups (shortcut store).                                      *)
(***************************************************************************)
Stored(text) == [present |-> TRUE, text |-> text]
NotStored == [present |-> FALSE, text |-> <<>>]

\* localStorage.getItem(SAVED_GROUPS_KEY) || '[]'
StoredText(st) ==
    IF ~st.present \/ st.text = <<>> THEN <<"[", "]">> ELSE st.text

\* JSON.parse(localStorage.getItem(SAVED_GROUPS_KEY) || '[]')
LoadSavedGroups(st) == JSONParse(StoredText(st))

\* escapeHtml(text): the markup of a text node
RECURSIVE escapeHtml(_)
escapeHtml(text) ==
    IF text = <<>> THEN <<>>
    ELSE (CASE Head(text) = "&" -> <<"&", "a", "m", "p", ";">>
            [] Head(text) = "<" -> <<"&", "l", "t", ";">>
            [] Head(text) = ">" -> <<"&", "g", "t", ";">>
            [] OTHER -> <<Head(text)>>) \o escapeHtml(Tail(text))

\* the text a member shows: undefined shows as the empty text
MemberText(m) ==
    IF m = Undefined THEN <<>> ELSE IF m = Opaque THEN Opaque ELSE escapeHtml(m)

IsNull(v) == v.k = "lit" /\ v.s = LitNull

\* the markup of one list item: the index its handlers carry and its texts
ItemMarkup(group, index) ==
    [index |-> index, name |-> MemberText(group.name),
     id |-> MemberText(group.id)]

\* savedGroups.length === 0
LengthIsZero(g) ==
    \/ g.k = "arr" /\ g.items = <<>>
    \/ g.k = "str" /\ g.s = <<>>

\* renderSavedGroups(): [view, threw], the list view after it and whether it
\* threw (a variable not initialized, null, a value without map, a null item)
renderSavedGroups(g, view) ==
    IF g.k = "uninit" \/ IsNull(g) THEN [view |-> view, threw |-> TRUE]
    ELSE IF LengthIsZero(g)
    THEN [view |-> [view EXCEPT !.listHidden = TRUE, !.hintHidden = FALSE],
          threw |-> FALSE]
    ELSE LET shown == [view EXCEPT !.listHidden = FALSE, !.hintHidden = TRUE]
         IN  IF g.k # "arr" \/ \E i \in 1..Len(g.items) : IsNull(g.items[i])
             THEN [view |-> shown, threw |-> TRUE]
             ELSE [view |-> [shown EXCEPT !.items =
                        [i \in 1..Len(g.items) |->
                            ItemMarkup(g.items[i], i - 1)]],
                   threw |-> FALSE]

\* splice with the index off by one
SpliceOffByOne(items, index) ==
    IF index + 2 > Len(items) THEN items
    ELSE SubSeq(items, 1, index + 1) \o SubSeq(items, index + 3, Len(items))

\* array.splice(index, 1) for index >= 0
Splice(items, index) ==
    IF index + 1 > Len(items) THEN items
    ELSE SubSeq(items, 1, index) \o SubSeq(items, index + 2, Len(items))

\* the effects of a store handler
StoreResult(g, st, view, nameField, idField, calls) ==
    [savedGroups |-> g, storage |-> st, view |-> view,
     nameField |-> nameField, idField |-> idField, calls |-> calls]

\* saveGroup writing the list as it was before the push
saveGroupStaleWrite(g, st, view, nameField, idField) ==
    LET name == Trim(nameField)
        id == Trim(idField)
        pushed == [g EXCEPT !.items = Append(@, JsObj(name, id))]
        written == Stored(JSONStringify(g))
        r == renderSavedGroups(pushed, view)
    IN  IF name = <<>> \/ id = <<>>
        THEN StoreResult(g, st, view, nameField, idField, <<AlertShortcut>>)
        ELSE IF g.k # "arr"
        THEN StoreResult(g, st, view, nameField, idField, <<"throw">>)
        ELSE IF r.threw
        THEN StoreResult(pushed, written, r.view, nameField, idField,
                         <<"setItem", "throw">>)
        ELSE StoreResult(pushed, written, r.view, <<>>, <<>>,
                         <<"setItem", "render", "haptic: success">>)

\* saveGroup() with the two fields holding nameField and idField
saveGroup(g, st, view, nameField, idField) ==
    LET name == Trim(nameField)
        id == Trim(idField)
        pushed == [g EXCEPT !.items = Append(@, JsObj(name, id))]
        written == Stored(JSONStringify(pushed))
        r == renderSavedGroups(pushed, view)
    IN  IF name = <<>> \/ id = <<>>
        THEN StoreResult(g, st, view, nameField, idField, <<AlertShortcut>>)
        ELSE IF g.k # "arr"
        THEN StoreResult(g, st, view, nameField, idField, <<"throw">>)
        ELSE IF r.threw
        THEN StoreResult(pushed, written, r.view, nameField, idField,
                         <<"setItem", "throw">>)
        ELSE StoreResult(pushed, written, r.view, <<>>, <<>>,
                         <<"setItem", "render", "haptic: success">>)

\* the answer the host passes to the callback of tg.showConfirm
AnswerYes == "callback(true)"
AnswerNo == "callback(false)"

\* the callback deleteGroup(index) gives to tg.showConfirm
deleteConfirmed(g, st, view, nameField, idField, index, confirmed) ==
    LET spliced == [g EXCEPT !.items = Splice(@, index)]
        written == Stored(JSONStringify(spliced))
        r == renderSavedGroups(spliced, view)
    IN  IF ~confirmed
        THEN StoreResult(g, st, view, nameField, idField, <<AnswerNo>>)
        ELSE IF g.k # "arr"
        THEN StoreResult(g, st, view, nameField, idField,
                         <<AnswerYes, "throw">>)
        ELSE IF r.threw
        THEN StoreResult(spliced, written, r.view, nameField, idField,
                         <<AnswerYes, "setItem", "throw">>)
        ELSE StoreResult(spliced, written, r.view, nameField, idField,
                         <<AnswerYes, "setItem", "render", "haptic: warning">>)

(***************************************************************************)
(* Inputs of the model.                                                    *)
(***************************************************************************)
\* what the user types into #groupId
GroupIdInputs == {<<>>, <<" ">>, <<"v", "k">>}
\* what the user types into #count
CountInputs == {<<>>, <<"0">>, <<"7">>, <<"1", "0", "1">>, <<"a">>}
\* where the user drags #countRange
RangeInputs == {<<"1">>, <<"1", "0", "0">>}
\* what the user types into #newGroupName and #newGroupId
NameInputs == {<<>>, <<" ">>, <<" ", "<", Quote, " ">>, <<"b", Backslash>>}
IdInputs == {<<>>, <<"v", "k", " ">>}
\* the days the user picks in a date field; 0 clears it
DayInputs == 0..MaxDay
\* days in the default date window
WeekDays == 7
\* the days the page may be opened on
Todays == {WeekDays + 1}
\* the fields of #count and #countRange in the markup
DefaultCount == <<"1", "0">>
\* what localStorage may hold when the page is opened
StorageInputs ==
    { NotStored,
      Stored(<<"[", "]">>),
      Stored(JSONStringify(JsArr(<<JsObj(<<"a">>, <<"1">>)>>))),
      Stored(<<"v", "k">>),
      Stored(<<"{", "}">>),
      Stored(<<Quote, Quote>>),
      Stored(LitNull),
      Stored(<<"[", "n", "u", "l", "l", "]">>) }
\* largest current and total of a progress notification
MaxProgress == 2
\* the posts counts of a success notification
SuccessCounts == {0, 7}
\* the texts of an error notification
ErrorTexts == {Undefined, <<"VK API error">>}

\* the payloads of the message events: data that is no string, a string
\* that is no JSON, JSON without a type (a number, an object without the
\* member, null: reading its type throws inside the try block), JSON of an
\* unknown type, and the three notifications
Message(str, json, type, current, total, count, message) ==
    [str |-> str, json |-> json, type |-> type, current |-> current,
     total |-> total, count |-> count, message |-> message]

Messages ==
    { Message(FALSE, FALSE, "none", 0, 0, 0, Undefined),
      Message(TRUE, FALSE, "none", 0, 0, 0, Undefined),
      Message(TRUE, TRUE, "none", 0, 0, 0, Undefined),
      Message(TRUE, TRUE, "unknown", 0, 0, 0, Undefined) }
    \cup { Message(TRUE, TRUE, "progress", c, t, 0, Undefined) :
             c \in 0..MaxProgress, t \in 0..MaxProgress }
    \cup { Message(TRUE, TRUE, "success", 0, 0, n, Undefined) :
             n \in SuccessCounts }
    \cup { Message(TRUE, TRUE, "error", 0, 0, 0, e) : e \in ErrorTexts }

(***************************************************************************)
(* The page before its script runs.                                        *)
(***************************************************************************)
LabelHost == "CONTINUE"

MarkupSession(visible) ==
    [statusHidden |-> TRUE, statusClasses |-> {}, statusIcon |-> "",
     statusText |-> <<>>, progressFill |-> Percent(0, 0),
     progressText |-> <<>>, mainButtonVisible |-> visible,
     mainButtonText |-> LabelHost, clickHandlers |-> <<>>,
     calls |-> <<>>, awaiting |-> FALSE]

MarkupView == [listHidden |-> FALSE, hintHidden |-> FALSE, items |-> <<>>]

Init ==
    /\ variant \in Variants
    /\ pc = "start"
    /\ groupIdInput = <<>>
    /\ startDateInput = 0
    /\ endDateInput = 0
    /\ countInput = DefaultCount
    /\ countRange = DefaultCount
    /\ newGroupNameInput = <<>>
    /\ newGroupIdInput = <<>>
    /\ savedGroups = JsUninit
    /\ storage \in (IF variant = "webapp" THEN StorageInputs ELSE {NotStored})
    /\ groupsView = MarkupView
    /\ pending = EmptyBag
    /\ \E visible \in BOOLEAN : session = MarkupSession(visible)

(***************************************************************************)
(* The script runs (top level of app.js / part_000).                       *)
(***************************************************************************)
\* the main button as lines 17-19 leave it
BoundSession(s) ==
    [s EXCEPT !.mainButtonText = LabelStart,
              !.clickHandlers = OnClick(@, "handleSubmit")]

Initialize ==
    /\ pc = "start"
    /\ UNCHANGED <<variant, groupIdInput, countInput, countRange,
                   newGroupNameInput, newGroupIdInput, storage, pending>>
    /\ \E today \in Todays :
        LET loaded == LoadSavedGroups(storage)
            r == renderSavedGroups(loaded, groupsView)
        IN  IF variant = "part000"
            THEN \* part_000 runs to its line 170, mainButton.onClicked(...),
                 \* which is no method of the host: everything is bound
                 /\ endDateInput' = today
                 /\ startDateInput' = today - WeekDays
                 /\ pc' = "ready"
                 /\ session' = Call(BoundSession(session), "throw")
                 /\ UNCHANGED <<savedGroups, groupsView>>
            ELSE IF loaded.k = "throw"
            THEN /\ pc' = "crashed"
                 /\ session' = Call(BoundSession(session), "throw")
                 /\ UNCHANGED <<startDateInput, endDateInput, savedGroups,
                                groupsView>>
            ELSE /\ savedGroups' = loaded
                 /\ endDateInput' = today
                 /\ startDateInput' = today - WeekDays
                 /\ groupsView' = r.view
                 /\ pc' = IF r.threw THEN "crashed" ELSE "ready"
                 /\ session' = IF r.threw
                                THEN Call(BoundSession(session), "throw")
                                ELSE BoundSession(session)

Running == pc \in {"ready", "crashed"}

(***************************************************************************)
(* The user edits the form.                                                *)
(***************************************************************************)
Quiet(s) == [s EXCEPT !.calls = <<>>]

EditGroupId ==
    /\ Running
    /\ \E v \in GroupIdInputs : groupIdInput' = v
    /\ session' = Quiet(session)
    /\ UNCHANGED <<variant, pc, startDateInput, endDateInput, countInput,
                   countRange, storeVars>>

EditStartDate ==
    /\ Running
    /\ \E d \in DayInputs : startDateInput' = d
    /\ session' = Quiet(session)
    /\ UNCHANGED <<variant, pc, groupIdInput, endDateInput, countInput,
                   countRange, storeVars>>

EditEndDate ==
    /\ Running
    /\ \E d \in DayInputs : endDateInput' = d
    /\ session' = Quiet(session)
    /\ UNCHANGED <<variant, pc, groupIdInput, startDateInput, countInput,
                   countRange, storeVars>>

\* Math.max(1, Math.min(100, value))
Clamp(value) ==
    IF value > 100 THEN 100 ELSE IF value < 1 THEN 1 ELSE value

\* parseInt(text) || 1
ParseIntOr1(text) ==
    LET n == parseInt(text) IN IF n.nan \/ n.n = 0 THEN 1 ELSE n.n

\* an input event on #count; its listener is bound once the script is ready
InputCount ==
    /\ Running
    /\ \E v \in CountInputs :
        IF pc = "ready"
        THEN /\ countInput' = NumToString(Clamp(ParseIntOr1(v)))
             /\ countRange' = NumToString(Clamp(ParseIntOr1(v)))
        ELSE /\ countInput' = v
             /\ UNCHANGED countRange
    /\ session' = Quiet(session)
    /\ UNCHANGED <<variant, pc, groupIdInput, startDateInput, endDateInput,
                   storeVars>>

\* an input event on #countRange
InputCountRange ==
    /\ Running
    /\ \E v \in RangeInputs :
        /\ countRange' = v
        /\ IF pc = "ready" THEN countInput' = v ELSE UNCHANGED countInput
    /\ session' = Quiet(session)
    /\ UNCHANGED <<variant, pc, groupIdInput, startDateInput, endDateInput,
                   storeVars>>

(***************************************************************************)
(* The user clicks the main button.                                        *)
(***************************************************************************)
ClickMainButton ==
    /\ Running
    /\ session.mainButtonVisible
    /\ session' = RunClickHandlers(session.clickHandlers, Quiet(session),
                                   variant, FormFields)
    /\ UNCHANGED <<variant, pc, formVars, storeVars>>

(***************************************************************************)
(* A message event arrives.                                                *)
(***************************************************************************)
\* the branches of the message listener, as its trace names them
Ignored == "message ignored"
ToProgress == "updateProgress"
ToSuccess == "showSuccess"
ToError == "showError"

\* a listener that reports every JSON payload it does not know as an error
onMessageUnknownAsError(s, v, m) ==
    IF ~m.str \/ ~m.json THEN Call(s, Ignored)
    ELSE IF m.type = "progress"
         THEN updateProgress(Call(s, ToProgress), m.current, m.total)
    ELSE IF m.type = "success"
         THEN showSuccess([Call(s, ToSuccess) EXCEPT !.awaiting = FALSE],
                          v, m.count)
    ELSE showError([Call(s, ToError) EXCEPT !.awaiting = FALSE], v, m.message)

\* the message listener
onMessage(s, v, m) ==
    IF ~m.str \/ ~m.json THEN Call(s, Ignored)
    ELSE IF m.type = "progress"
         THEN updateProgress(Call(s, ToProgress), m.current, m.total)
    ELSE IF m.type = "success"
         THEN showSuccess([Call(s, ToSuccess) EXCEPT !.awaiting = FALSE],
                          v, m.count)
    ELSE IF m.type = "error"
         THEN showError([Call(s, ToError) EXCEPT !.awaiting = FALSE],
                        v, m.message)
    ELSE Call(s, Ignored)

ReceiveMessage ==
    /\ pc = "ready"
    /\ \E m \in Messages :
        /\ (m.type = "success" /\ variant = "webapp")
              => Len(session.clickHandlers) < MaxHandlers
        /\ session' = onMessage(Quiet(session), variant, m)
    /\ UNCHANGED <<variant, pc, formVars, storeVars>>

(***************************************************************************)
(* The user works with the saved groups (app.js only).                     *)
(***************************************************************************)
ApplyStore(r) ==
    /\ savedGroups' = r.savedGroups
    /\ storage' = r.storage
    /\ groupsView' = r.view
    /\ newGroupNameInput' = r.nameField
    /\ newGroupIdInput' = r.idField
    /\ session' = [session EXCEPT !.calls = r.calls]

\* the user fills the two fields of the add form
TypeNewGroup ==
    /\ Running
    /\ variant = "webapp"
    /\ \E name \in NameInputs, id \in IdInputs :
        /\ newGroupNameInput' = name
        /\ newGroupIdInput' = id
    /\ session' = Quiet(session)
    /\ UNCHANGED <<variant, pc, formVars, savedGroups, storage, groupsView,
                   pending>>

\* the user presses the save button of the add form
SaveGroup ==
    /\ Running
    /\ variant = "webapp"
    /\ savedGroups.k = "arr" => Len(savedGroups.items) < MaxGroups
    /\ ApplyStore(saveGroup(savedGroups, storage, groupsView,
                            newGroupNameInput, newGroupIdInput))
    /\ UNCHANGED <<variant, pc, formVars, pending>>

\* the indices the list view offers
ShownIndices ==
    IF groupsView.listHidden THEN {}
    ELSE {groupsView.items[i].index : i \in 1..Len(groupsView.items)}

\* selectGroup(index): savedGroups[index] is undefined for an index the list
\* does not hold (and null for a null item), and reading its id throws
SelectGroupAt(index) ==
    IF /\ savedGroups.k = "arr"
       /\ index < Len(savedGroups.items)
       /\ ~IsNull(savedGroups.items[index + 1])
    THEN /\ groupIdInput' =
                (LET id == savedGroups.items[index + 1].id
                 IN  IF id = Undefined
                     THEN <<"u", "n", "d", "e", "f", "i", "n", "e", "d">>
                     ELSE id)
         /\ session' = [session EXCEPT !.calls =
                            <<"haptic: selection", "scrollIntoView">>]
    ELSE /\ UNCHANGED groupIdInput
         /\ session' = [session EXCEPT !.calls = <<"throw">>]

\* selectGroup(index), from the click handler of a list item
SelectGroup ==
    /\ Running
    /\ variant = "webapp"
    /\ \E index \in ShownIndices : SelectGroupAt(index)
    /\ UNCHANGED <<variant, pc, startDateInput, endDateInput, countInput,
                   countRange, storeVars>>

\* selectGroup(index) called with any index: the function is a global of the
\* page, reached by name from the markup
CallSelectGroup ==
    /\ Running
    /\ variant = "webapp"
    /\ \E index \in 0..MaxGroups : SelectGroupAt(index)
    /\ UNCHANGED <<variant, pc, startDateInput, endDateInput, countInput,
                   countRange, storeVars>>

\* one confirmation dialog: the index its callback holds, the item shown
Dialog(index, entry) == SetToBag({[index |-> index, entry |-> entry]})

\* deleteGroup(index), from the delete button of a list item: the host is
\* asked to confirm
DeleteGroup ==
    /\ Running
    /\ variant = "webapp"
    /\ BagCardinality(pending) < MaxPending
    /\ \E index \in ShownIndices :
        pending' = pending (+) Dialog(index, groupsView.items[index + 1])
    /\ session' = [session EXCEPT !.calls = <<"showConfirm">>]
    /\ UNCHANGED <<variant, pc, formVars, newGroupNameInput, newGroupIdInput,
                   savedGroups, storage, groupsView>>

\* a list without its k-th entry
Without(seq, k) == SubSeq(seq, 1, k - 1) \o SubSeq(seq, k + 1, Len(seq))

\* the host answers a confirmation dialog
AnswerConfirm ==
    /\ \E d \in BagToSet(pending), confirmed \in BOOLEAN :
        /\ pending' = pending (-) Dialog(d.index, d.entry)
        /\ ApplyStore(deleteConfirmed(savedGroups, storage, groupsView,
                newGroupNameInput, newGroupIdInput, d.index, confirmed))
    /\ UNCHANGED <<variant, pc, formVars>>

(***************************************************************************)
(* The whole page: every event in every order.                             *)
(***************************************************************************)
Next ==
    \/ Initialize
    \/ EditGroupId
    \/ EditStartDate
    \/ EditEndDate
    \/ InputCount
    \/ InputCountRange
    \/ ClickMainButton
    \/ ReceiveMessage
    \/ TypeNewGroup
    \/ SaveGroup
    \/ SelectGroup
    \/ CallSelectGroup
    \/ DeleteGroup
    \/ AnswerConfirm

Spec == Init /\ [][Next]_vars

(***************************************************************************)
(* The session alone: the user edits the group id, clicks the main button  *)
(* and the host sends notifications.                                       *)
(***************************************************************************)
NextSession ==
    \/ Initialize
    \/ EditGroupId
    \/ ClickMainButton
    \/ ReceiveMessage

SpecSession == Init /\ [][NextSession]_vars

(***************************************************************************)
(* The saved groups alone: the events that write the list.  (Selecting an  *)
(* entry reads the list and writes the group id field; see SpecSelect.)    *)
(***************************************************************************)
NextStore ==
    \/ Initialize
    \/ TypeNewGroup
    \/ SaveGroup
    \/ DeleteGroup
    \/ AnswerConfirm

SpecStore == Init /\ [][NextStore]_vars

(***************************************************************************)
(* selectGroup as a function of the list and the index it is given.        *)
(***************************************************************************)
NextSelect ==
    \/ Initialize
    \/ TypeNewGroup
    \/ SaveGroup
    \/ SelectGroup
    \/ CallSelectGroup

SpecSelect == Init /\ [][NextSelect]_vars

(***************************************************************************)
(* The session together with the add form of the saved groups.             *)
(***************************************************************************)
NextFrame ==
    \/ Initialize
    \/ EditGroupId
    \/ ClickMainButton
    \/ ReceiveMessage
    \/ TypeNewGroup
    \/ SaveGroup

SpecFrame == Init /\ [][NextFrame]_vars

(***************************************************************************)
(* The fields of the form alone: the dates and the two count controls.     *)
(***************************************************************************)
NextFields ==
    \/ Initialize
    \/ EditStartDate
    \/ EditEndDate
    \/ InputCount
    \/ InputCountRange

SpecFields == Init /\ [][NextFields]_vars

(***************************************************************************)
(* validateForm on every combination of field values: the page is ready,   *)
(* the fields hold any of the values below, the user clicks the button.    *)
(***************************************************************************)
\* longest text of #groupId and #count that is tried
MaxText == 2

RECURSIVE Texts(_, _)
Texts(chars, n) ==
    IF n = 0 THEN {<<>>}
    ELSE Texts(chars, n - 1)
         \cup {Append(t, c) : t \in Texts(chars, n - 1), c \in chars}

FormGroupIds == Texts({" ", "v"}, MaxText)
FormCounts == Texts({"0", "1", "a", "-"}, MaxText + 1)

InitForm ==
    /\ variant \in Variants
    /\ pc = "ready"
    /\ groupIdInput \in FormGroupIds
    /\ startDateInput \in DayInputs
    /\ endDateInput \in DayInputs
    /\ countInput \in FormCounts
    /\ countRange = DefaultCount
    /\ newGroupNameInput = <<>>
    /\ newGroupIdInput = <<>>
    /\ savedGroups = (IF variant = "webapp" THEN JsArr(<<>>) ELSE JsUninit)
    /\ storage = NotStored
    /\ groupsView = (IF variant = "webapp"
                     THEN renderSavedGroups(JsArr(<<>>), MarkupView).view
                     ELSE MarkupView)
    /\ pending = EmptyBag
    /\ session = BoundSession(MarkupSession(TRUE))

NextForm == ClickMainButton

SpecForm == InitForm /\ [][NextForm]_vars
(***************************************************************************)
(* The states of a session, read off the page.                             *)
(***************************************************************************)
\* the handler that ran last handed a request to the host
Sent(s) == \E i \in 1..Len(s.calls) : s.calls[i] = "sendData"

\* ... exactly once
SentOnce(s) == Cardinality({i \in 1..Len(s.calls) : s.calls[i] = "sendData"}) = 1

\* the alerts the handler that ran last raised, in order
IsAlert(c) == c \in {AlertGroupId, AlertDates, AlertCount, AlertShortcut}
Alerts(s) == SelectSeq(s.calls, IsAlert)

\* the session as showSuccess leaves it
SuccessState ==
    /\ "success" \in session.statusClasses
    /\ session.mainButtonVisible
    /\ session.mainButtonText = LabelCopyMore

ErrorState == "error" \in session.statusClasses

\* no submission is shown: the status area is hidden
IdleState ==
    /\ session.statusHidden
    /\ "processing" \notin session.statusClasses
    /\ "error" \notin session.statusClasses

(***************************************************************************)
(* Claims about the session (checked under SpecSession).                   *)
(***************************************************************************)
\* C1: after a success notification, the next click on the main button
\* returns the session to Idle (status area hidden, label "start"), and
\* that click sends no request and does not enter Processing.
C1_ClickAfterSuccessOnlyResets ==
    [][(ClickMainButton /\ SuccessState)
        => /\ session'.statusHidden
           /\ session'.mainButtonText = LabelStart
           /\ ~Sent(session')
           /\ "processing" \notin session'.statusClasses]_vars

\* C2: whenever the session is Idle or Error and the main button is visible,
\* a click with valid form input sends a request (one) and enters
\* Processing: the processing class is set, the button is hidden and a
\* notification is awaited.  This holds after any history.
C2_ValidClickSubmits ==
    [][(/\ ClickMainButton
        /\ IdleState \/ ErrorState
        /\ session.mainButtonVisible
        /\ validateForm(FormFields).ok)
        => /\ SentOnce(session')
           /\ "processing" \in session'.statusClasses
           /\ ~session'.mainButtonVisible
           /\ session'.awaiting]_vars

\* a request was sent by a click made after an earlier success had bound
\* its own click handler
C2_Witness ==
    /\ Sent(session)
    /\ "processing" \in session.statusClasses
    /\ Len(session.clickHandlers) >= 2

\* the Idle state reached by clicking the button after a success, with a
\* form that is valid again: the state C2 names in particular
C2_IdleAfterSuccess ==
    /\ IdleState
    /\ "success" \in session.statusClasses
    /\ session.mainButtonText = LabelStart
    /\ session.mainButtonVisible
    /\ validateForm(FormFields).ok

\* C3: every Processing session that receives a terminal notification ends
\* with the main button visible again, labelled "copy more" after success
\* and "retry" after error, in both variants of the controller.
C3_TerminalRestoresButton ==
    [][(/\ ReceiveMessage
        /\ "processing" \in session.statusClasses
        /\ "processing" \notin session'.statusClasses)
        => /\ session'.mainButtonVisible
           /\ "success" \in session'.statusClasses
                => session'.mainButtonText = LabelCopyMore
           /\ "error" \in session'.statusClasses
                => session'.mainButtonText \in {LabelRetry, LabelStartOver}]_vars

(***************************************************************************)
(* Claims about validateForm (checked under SpecForm).                     *)
(***************************************************************************)
\* the three checks as the specification words them
GroupIdGiven == Trim(groupIdInput) # <<>>

\* both fields hold a date and the start is not after the end
DatesInOrder ==
    /\ startDateInput # 0
    /\ endDateInput # 0
    /\ startDateInput <= endDateInput

\* both fields hold a date and the start is after the end
DatesInverted ==
    /\ startDateInput # 0
    /\ endDateInput # 0
    /\ startDateInput > endDateInput

\* the count parses as an integer in 1..100
CountInRange ==
    /\ ~parseInt(countInput).nan
    /\ parseInt(countInput).n >= 1
    /\ parseInt(countInput).n <= 100

\* the alert of the first check that fails, none when all pass
FirstFailure ==
    IF ~GroupIdGiven THEN <<AlertGroupId>>
    ELSE IF ~DatesInOrder THEN <<AlertDates>>
    ELSE IF ~CountInRange THEN <<AlertCount>>
    ELSE <<>>

\* C4: validateForm checks, in this order, groupId non-empty after trim,
\* startDate <= endDate, count an integer in 1..100; for every combination
\* of field values a submit raises exactly the alert of the first failing
\* check and goes on to send the request only if all three pass.
C4_FirstFailingCheckOnly ==
    [][ClickMainButton
        => /\ Alerts(session') = FirstFailure
           /\ Sent(session') <=> FirstFailure = <<>>]_vars

\* C5 as stated: for startDate > endDate the submit is rejected with the
\* date alert, whatever the group id and the count are.
C5_InvertedDatesAlwaysDateAlert ==
    [][(ClickMainButton /\ DatesInverted)
        => Alerts(session') = <<AlertDates>> /\ ~Sent(session')]_vars

\* C5 as amended: for startDate > endDate and a group id that is not empty
\* after trimming, the submit is rejected with the date alert (and only
\* that alert), whatever the count is.
C5_InvertedDatesDateAlertGivenGroupId ==
    [][(ClickMainButton /\ DatesInverted /\ GroupIdGiven)
        => Alerts(session') = <<AlertDates>> /\ ~Sent(session')]_vars

\* a submit with inverted dates and a count out of range raised the date
\* alert
C5_Witness ==
    /\ session.calls = <<AlertDates>>
    /\ DatesInverted
    /\ ~CountInRange

(***************************************************************************)
(* Claims about failed submits and saves (checked under SpecFrame).        *)
(***************************************************************************)
\* the session apart from the calls of the last handler
Shown(s) == [s EXCEPT !.calls = <<>>]

\* C6: a submit click whose validation fails, and a save with an empty name
\* or id, changes nothing except raising one alert: no request is sent, the
\* session (status area, progress, main button) is unchanged and the saved
\* groups, in memory and persisted, are unchanged.
C6_RejectedInputOnlyAlerts ==
    [][(\/ ClickMainButton /\ ~validateForm(FormFields).ok
        \/ SaveGroup /\ (Trim(newGroupNameInput) = <<>>
                         \/ Trim(newGroupIdInput) = <<>>))
        => /\ Len(Alerts(session')) = 1
           /\ ~Sent(session')
           /\ Shown(session') = Shown(session)
           /\ UNCHANGED <<savedGroups, storage, groupsView, formVars,
                          newGroupNameInput, newGroupIdInput, pending>>]_vars

(***************************************************************************)
(* Claims about the saved groups (checked under SpecStore).                *)
(***************************************************************************)
\* C7: add(name, id) with either argument empty after trim never mutates
\* the persisted list; with both non-empty the list grows by exactly one,
\* the new trimmed entry is at the end, the entries before it keep their
\* order, and load() of the persisted form yields that same list.
C7_AddAppendsAndRoundTrips ==
    [][SaveGroup
        => LET name == Trim(newGroupNameInput)
               id == Trim(newGroupIdInput)
           IN  IF name = <<>> \/ id = <<>>
               THEN storage' = storage
               ELSE /\ savedGroups'.k = "arr"
                    /\ savedGroups'.items =
                            Append(savedGroups.items, JsObj(name, id))
                    /\ LoadSavedGroups(storage') = savedGroups']_vars

\* the step is the callback of a confirmation dialog
Answered ==
    /\ session'.calls # <<>>
    /\ Head(session'.calls) \in {AnswerYes, AnswerNo}

\* C8: delete(index) for an index that is in the list when the answer to
\* the confirmation arrives: a declined confirmation leaves the list, in
\* memory and persisted, unchanged; an accepted one shrinks the list by
\* exactly one, removes exactly the entry at index, keeps the others in
\* order, and persists the result.
C8_DeleteRemovesExactlyIndex ==
    [][Answered => \A d \in BagToSet(pending) :
            (/\ pending' = pending (-) Dialog(d.index, d.entry)
             /\ savedGroups.k = "arr"
             /\ d.index < Len(savedGroups.items)
             /\ AnswerConfirm)
            => LET index == d.index
                   old == savedGroups.items
                   new == savedGroups'.items
               IN  /\ Head(session'.calls) = AnswerNo
                        => savedGroups' = savedGroups /\ storage' = storage
                   /\ Head(session'.calls) = AnswerYes
                        => /\ Len(new) = Len(old) - 1
                           /\ \A j \in 1..index : new[j] = old[j]
                           /\ \A j \in (index + 1)..Len(new) :
                                new[j] = old[j + 1]
                           /\ LoadSavedGroups(storage') = savedGroups']_vars

\* an accepted delete has removed one entry and left another in the list
C8_Witness ==
    /\ session.calls # <<>>
    /\ Head(session.calls) = AnswerYes
    /\ savedGroups.k = "arr"
    /\ Len(savedGroups.items) >= 1

\* C9: after any sequence of add, delete-request, confirm/decline and
\* select events, at every handler boundary the persisted list equals the
\* in-memory list (whenever the script holds one), and a handler re-renders
\* the list view only after it has written the persisted copy.
C9_PersistedEqualsMemory ==
    /\ (pc # "start" /\ savedGroups.k # "uninit")
            => LoadSavedGroups(storage) = savedGroups
    /\ \A i \in 1..Len(session.calls) :
            session.calls[i] = "render"
                => \E j \in 1..(i - 1) : session.calls[j] = "setItem"

\* a handler has written and re-rendered a list that is not empty
C9_Witness ==
    /\ savedGroups.k = "arr"
    /\ savedGroups.items # <<>>
    /\ \E i \in 1..Len(session.calls) : session.calls[i] = "render"

\* C10: load() at startup never fails: if the persisted value is absent or
\* malformed (not parseable, or parseable but not a list of shortcuts) the
\* store starts with an empty list and initialization continues.
C10_LoadNeverFails ==
    (pc # "start" /\ variant = "webapp")
        => /\ pc = "ready"
           /\ savedGroups.k = "arr"
           /\ LoadSavedGroups(storage).k # "arr" => savedGroups.items = <<>>
(***************************************************************************)
(* Claims about the notifications (checked under SpecSession).             *)
(***************************************************************************)
\* a payload the listener has no branch for: no string, no JSON, or JSON
\* whose type is none of progress, success and error
Malformed(m) ==
    \/ ~m.str
    \/ ~m.json
    \/ m.type \notin {"progress", "success", "error"}

\* Processing: a request was sent and no terminal notification came since
Processing == session.awaiting

\* C11: a payload that is no string, is no JSON, or is JSON without a type
\* of progress/success/error leaves the status area, the progress display
\* and the main button unchanged and raises no error, in every state of
\* the session.
C11_MalformedPayloadIgnored ==
    [][\A m \in {n \in Messages : Malformed(n)} :
        (/\ session' = onMessage(Quiet(session), variant, m)
         /\ ReceiveMessage)
        => /\ Shown(session') = Shown(session)
           /\ session'.calls = <<Ignored>>]_vars

\* a payload was ignored while a request was being processed
C11_Witness ==
    /\ session.calls = <<Ignored>>
    /\ Processing
    /\ "processing" \in session.statusClasses
    /\ ~session.mainButtonVisible

\* the text of the progress counter for current and total
ProgressTextOf(current, total) ==
    NumToString(current) \o <<"/">> \o NumToString(total)

\* a <= b for two widths of the progress bar
WidthLeq(a, b) == a.num * b.den <= b.num * a.den

\* the session with its progress display blanked
WithoutProgress(s) ==
    [Shown(s) EXCEPT !.progressFill = Percent(0, 0), !.progressText = <<>>]

\* the status text of Success(count)
SuccessText(count) == <<"Skopirovano ">> \o NumToString(count) \o <<" postov!">>

\* C12: during Processing a progress(current, total) notification changes
\* only the width of the bar, to current * 100 / total percent (0 when
\* total is 0), and the counter, to "current/total", and the session stays
\* Processing; after a progress notification with the same total and a
\* current that is not larger, the width does not shrink; a success(n)
\* notification ends in Success(n) with bar and counter as the last
\* progress notification left them.
C12_ProgressThenSuccess ==
    [][\A m \in {n \in Messages : n.type \in {"progress", "success"}} :
        (/\ Processing
         /\ session' = onMessage(Quiet(session), variant, m)
         /\ ReceiveMessage)
        => IF m.type = "progress"
           THEN /\ WithoutProgress(session') = WithoutProgress(session)
                /\ session'.awaiting
                /\ session'.progressText = ProgressTextOf(m.current, m.total)
                /\ session'.progressFill.den > 0
                /\ IF m.total = 0
                   THEN session'.progressFill.num = 0
                   ELSE session'.progressFill.num * m.total
                            = m.current * 100 * session'.progressFill.den
                /\ \A earlier \in 0..m.current :
                        session.progressText
                                = ProgressTextOf(earlier, m.total)
                            => WidthLeq(session.progressFill,
                                        session'.progressFill)
           ELSE /\ "success" \in session'.statusClasses
                /\ "processing" \notin session'.statusClasses
                /\ session'.statusIcon = IconSuccess
                /\ session'.statusText = SuccessText(m.count)
                /\ ~session'.awaiting
                /\ session'.progressText = session.progressText
                /\ session'.progressFill = session.progressFill]_vars

\* progress(1, 2) and then success(7) were received during Processing
C12_Witness ==
    /\ session.calls = <<ToSuccess>>
    /\ "success" \in session.statusClasses
    /\ session.statusText = SuccessText(7)
    /\ session.progressText = ProgressTextOf(1, 2)
    /\ session.progressFill = Percent(50, 1)

(***************************************************************************)
(* Claims about the count field (checked under SpecForm and SpecFields).   *)
(***************************************************************************)
\* the text is an integer: an optional sign and then digits only
IsIntegerText(text) ==
    LET body == IF text # <<>> /\ Head(text) = "-" THEN Tail(text) ELSE text
    IN  /\ body # <<>>
        /\ \A i \in 1..Len(body) : IsDigit(body[i])

\* the count field holds an integer in 1..100
CountIsIntegerInRange ==
    /\ IsIntegerText(countInput)
    /\ parseInt(countInput).n >= 1
    /\ parseInt(countInput).n <= 100

\* C13: with group id and dates valid, a count field that is not numeric
\* or holds an integer outside 1..100 is rejected with the count alert (no
\* request is sent), and a count field holding an integer in 1..100 is
\* accepted.
C13_CountMustBeIntegerInRange ==
    [][(GroupIdGiven /\ DatesInOrder /\ ClickMainButton)
        => IF CountIsIntegerInRange
           THEN Alerts(session') = <<>> /\ Sent(session')
           ELSE Alerts(session') = <<AlertCount>> /\ ~Sent(session')]_vars

\* C14: after every input event on the count field or on the range control
\* both controls hold the same value, and it is an integer in 1..100.
C14_CountControlsInSync ==
    [][(InputCount \/ InputCountRange)
        => /\ countInput' = countRange'
           /\ IsIntegerText(countInput')
           /\ parseInt(countInput').n >= 1
           /\ parseInt(countInput').n <= 100]_vars

(***************************************************************************)
(* Claims about select (checked under SpecSelect).                         *)
(***************************************************************************)
\* the index names an entry of the list the script holds
InList(index) == savedGroups.k = "arr" /\ index < Len(savedGroups.items)

\* C15: select(index) with an index outside the list is a silent no-op:
\* the group id field and everything else is unchanged and no error is
\* raised; with an index inside the list it copies that entry's id into the
\* group id field and leaves the list unchanged.
C15_SelectOutOfRangeIsNoOp ==
    [][\A index \in 0..MaxGroups :
        (SelectGroupAt(index) /\ CallSelectGroup)
        => IF InList(index)
           THEN /\ groupIdInput' = savedGroups.items[index + 1].id
                /\ UNCHANGED <<savedGroups, storage, groupsView>>
           ELSE /\ UNCHANGED <<formVars, storeVars>>
                /\ Shown(session') = Shown(session)
                /\ \A i \in 1..Len(session'.calls) :
                        session'.calls[i] # "throw"]_vars

(***************************************************************************)
(* Claims about the list view (checked under SpecStore).                   *)
(***************************************************************************)
\* the script holds no shortcut
NoShortcuts == ~(savedGroups.k = "arr" /\ savedGroups.items # <<>>)

\* C16: once the script has run, and after any sequence of add and delete
\* events, exactly one of the list container and the empty-state hint is
\* visible: the hint iff the list in memory is empty, the container iff it
\* is not.
C16_ListOrHintVisible ==
    (pc # "start" /\ variant = "webapp")
        => /\ groupsView.hintHidden = ~NoShortcuts
           /\ groupsView.listHidden = NoShortcuts

(***************************************************************************)
(* Claims about submissions (checked under SpecSession).                   *)
(***************************************************************************)
\* C17: whenever a request has been sent and no terminal notification has
\* arrived since, the main button is hidden and the status area is visible
\* and shows the in-progress indication; this holds for every submission,
\* the ones made after an earlier Success included.
C17_ProcessingIsShown ==
    Processing
        => /\ ~session.mainButtonVisible
           /\ ~session.statusHidden
           /\ "processing" \in session.statusClasses
           /\ session.statusIcon = IconProcessing
           /\ session.statusText = TextProcessing

\* the requests the handler that ran last handed to the host
Requests(s) == Cardinality({i \in 1..Len(s.calls) : s.calls[i] = "sendData"})

\* C18: every click on the main button sends at most one request; a request
\* is sent only by a click whose validation passed; no request is sent
\* while the session is Processing; and a step sends a request exactly when
\* it enters Processing, so that the requests sent and the entries into
\* Processing are equal in number.
C18_OneRequestPerSubmission ==
    [][/\ Requests(session') <= 1
       /\ Sent(session')
            => /\ ~Processing
               /\ "processing" \notin session.statusClasses
               /\ session.mainButtonVisible
               /\ validateForm(FormFields).ok
               /\ ClickMainButton
       /\ Sent(session') <=> (~Processing /\ session'.awaiting)
       /\ Sent(session') <=> /\ "processing" \notin session.statusClasses
                              /\ "processing" \in session'.statusClasses]_vars

\* a retry after an error has sent its one request
C18_Witness ==
    /\ Requests(session) = 1
    /\ Processing
    /\ session.mainButtonText \in {LabelRetry, LabelStartOver}

\* C20: Success and Error are entered from Processing only: a notification
\* that arrives while no request is outstanding (the session is Idle or
\* already terminal) changes neither the label nor the visibility of the
\* main button nor the classes of the status area, and a progress
\* notification outside Processing does not change the progress display.
C20_NotificationsOnlyInProcessing ==
    [][(~Processing /\ ReceiveMessage)
        => /\ session'.mainButtonText = session.mainButtonText
           /\ session'.mainButtonVisible = session.mainButtonVisible
           /\ session'.statusClasses = session.statusClasses
           /\ session'.progressFill = session.progressFill
           /\ session'.progressText = session.progressText]_vars

(***************************************************************************)
(* Claims about deferred confirmations (checked under SpecStore).          *)
(***************************************************************************)
\* C19: the answers to the confirmation dialogs arrive later, in any order
\* and interleaved with other adds and deletes; a confirmed delete removes
\* exactly the entry that the list showed at its index when the delete was
\* requested: never another entry, and never no entry while the list is
\* written again.
C19_ConfirmedDeleteRemovesShownEntry ==
    [][Answered => \A d \in BagToSet(pending) :
        (/\ Head(session'.calls) = AnswerYes
         /\ pending' = pending (-) Dialog(d.index, d.entry)
         /\ savedGroups.k = "arr"
         /\ AnswerConfirm)
        => \E j \in 1..Len(savedGroups.items) :
            /\ ItemMarkup(savedGroups.items[j], d.index) = d.entry
            /\ savedGroups'.items = Without(savedGroups.items, j)]_vars

====
